---- MODULE Spec2Model ----
(***************************************************************************)
(* Model of jakes-dashboard: the metric interpreter (calculate and the two *)
(* completion-backed agents), the incremental log merger                   *)
(* (get_user_data_as_dataframe / update_user_data) and the aggregator      *)
(* (aggregate_data).                                                       *)
(*                                                                         *)
(* Texts are sequences of one-character strings.  Python values are        *)
(* records [t, s, n, d]: t is the Python type, s the text of a str, n/d    *)
(* the value of a number; d = 0 marks a non-finite float (n = 0 NaN,       *)
(* n = 1 inf, n = -1 -inf).  Finite floats are kept normalised (d a power  *)
(* of ten, no trailing decimal zero) so that equal numbers are equal       *)
(* records.                                                                *)
(***************************************************************************)
EXTENDS Integers, Sequences, FiniteSets, TLC

\* ------------------------------------------------------------------ bounds

\* Longest completion-service response text explored.
MaxLen == 3

\* Alphabet of the response texts: an in-range digit, an out-of-range digit,
\* zero, sign, decimal point, the letters of "nan" and "inf", and a blank.
Chars == {"0", "4", "7", "-", ".", "n", "a", "i", "f", " "}

RECURSIVE TextsOfLen(_)
TextsOfLen(k) ==
    IF k = 0 THEN {<<>>}
    ELSE {Append(t, c) : t \in TextsOfLen(k - 1), c \in Chars}

Texts == UNION {TextsOfLen(k) : k \in 0..MaxLen}

\* ----------------------------------------------------------- Python values

PyNone == [t |-> "none", s |-> <<>>, n |-> 0, d |-> 1]
PyStr(s) == [t |-> "str", s |-> s, n |-> 0, d |-> 1]
PyInt(n) == [t |-> "int", s |-> <<>>, n |-> n, d |-> 1]

RECURSIVE Norm(_, _)
Norm(n, d) ==
    IF d > 1 /\ n % 10 = 0 THEN Norm(n \div 10, d \div 10)
    ELSE [t |-> "float", s |-> <<>>, n |-> n, d |-> d]

PyFloat(n, d) == Norm(n, d)
NaN == [t |-> "float", s |-> <<>>, n |-> 0, d |-> 0]
PosInf == [t |-> "float", s |-> <<>>, n |-> 1, d |-> 0]
NegInf == [t |-> "float", s |-> <<>>, n |-> -1, d |-> 0]

IsNumber(v) == v.t \in {"int", "float"}
IsFinite(v) == IsNumber(v) /\ v.d > 0
IsNaN(v) == v.t = "float" /\ v.d = 0 /\ v.n = 0

\* Results of a call: a returned value or a raised exception, with the number
\* of completion requests (chat.completions.create calls) it issued.
Ret(v, r) == [exc |-> "", value |-> v, requests |-> r]
Raise(e, r) == [exc |-> e, value |-> PyNone, requests |-> r]

\* ------------------------------------------------------------ str -> float

Digits == {"0", "1", "2", "3", "4", "5", "6", "7", "8", "9"}

DigitVal(c) ==
    CASE c = "0" -> 0 [] c = "1" -> 1 [] c = "2" -> 2 [] c = "3" -> 3
      [] c = "4" -> 4 [] c = "5" -> 5 [] c = "6" -> 6 [] c = "7" -> 7
      [] c = "8" -> 8 [] c = "9" -> 9

RECURSIVE LStrip(_)
LStrip(s) == IF s # <<>> /\ Head(s) = " " THEN LStrip(Tail(s)) ELSE s

RECURSIVE RStrip(_)
RStrip(s) ==
    IF s # <<>> /\ s[Len(s)] = " " THEN RStrip(SubSeq(s, 1, Len(s) - 1)) ELSE s

\* str.strip()
Strip(s) == RStrip(LStrip(s))

\* Value of the digits of s read as one integer, the decimal point skipped.
RECURSIVE DigitsValue(_, _)
DigitsValue(s, acc) ==
    IF s = <<>> THEN acc
    ELSE IF Head(s) = "." THEN DigitsValue(Tail(s), acc)
    ELSE DigitsValue(Tail(s), acc * 10 + DigitVal(Head(s)))

\* 10 ^ (number of characters after the decimal point), 1 without a point.
RECURSIVE Scale(_)
Scale(s) ==
    IF s = <<>> THEN 1
    ELSE IF s[Len(s)] = "." THEN 1
    ELSE IF \E i \in 1..Len(s) : s[i] = "." THEN 10 * Scale(SubSeq(s, 1, Len(s) - 1))
    ELSE 1

IsDecimal(s) ==
    /\ \A i \in 1..Len(s) : s[i] \in Digits \cup {"."}
    /\ Cardinality({i \in 1..Len(s) : s[i] = "."}) <= 1
    /\ \E i \in 1..Len(s) : s[i] \in Digits

\* float(<str>): surrounding blanks are ignored, then an optional sign and
\* either inf / nan or a decimal literal; anything else is a ValueError.
\* (Exponents and digit-group underscores are outside the alphabet explored.)
FloatOfText(s) ==
    LET t == Strip(s)
        neg == t # <<>> /\ Head(t) = "-"
        body == IF neg THEN Tail(t) ELSE t
        sgn == IF neg THEN -1 ELSE 1
    IN  IF body = <<"i", "n", "f">> THEN Ret(IF neg THEN NegInf ELSE PosInf, 0)
        ELSE IF body = <<"n", "a", "n">> THEN Ret(NaN, 0)
        ELSE IF IsDecimal(body)
             THEN Ret(PyFloat(sgn * DigitsValue(body, 0), Scale(body)), 0)
        ELSE Raise("ValueError", 0)

\* float(x) for a Python value x.
float(v) ==
    IF v.t = "str" THEN FloatOfText(v.s)
    ELSE IF v.t = "int" THEN Ret(PyFloat(v.n, 1), 0)
    ELSE IF v.t = "float" THEN Ret(v, 0)
    ELSE Raise("TypeError", 0)

\* int(x) for a float x: truncation toward zero; NaN and the infinities raise.
int(v) ==
    IF v.d = 0
    THEN IF v.n = 0 THEN Raise("ValueError", 0) ELSE Raise("OverflowError", 0)
    ELSE Ret(PyInt(IF v.n >= 0 THEN v.n \div v.d ELSE -((-v.n) \div v.d)), 0)

min(a, b) == IF a <= b THEN a ELSE b
max(a, b) == IF a >= b THEN a ELSE b

\* ------------------------------------------------------------------ agents

\* What the completion service does with one request: a transport failure
\* (the client raises) or a response text.
TransportError == [err |-> TRUE, text |-> <<>>]
Response(text) == [err |-> FALSE, text |-> text]

\* CannabisMetricAgent.process_metric: one create() call; float(response),
\* 0.0 on ValueError.
CannabisMetricAgent_process_metric(metric_value, reply) ==
    IF reply.err THEN Raise("APIConnectionError", 1)
    ELSE LET response == Strip(reply.text)
             f == FloatOfText(response)
         IN  IF f.exc = "" THEN Ret(f.value, 1)
             ELSE IF f.exc = "ValueError" THEN Ret(PyFloat(0, 1), 1)
             ELSE Raise(f.exc, 1)

\* Mutant: the mood agent without the clamp of line 108.
Mood_unclamped(metric_value, reply) ==
    IF reply.err THEN Raise("APIConnectionError", 1)
    ELSE LET f == FloatOfText(Strip(reply.text))
             i == IF f.exc = "" THEN int(f.value) ELSE f
         IN  IF i.exc = "" THEN Ret(i.value, 1)
             ELSE IF i.exc = "ValueError" THEN Ret(PyInt(3), 1)
             ELSE Raise(i.exc, 1)

\* MoodMetricAgent.process_metric: one create() call; int(float(response))
\* clamped into 1..5, 3 on ValueError; any other exception propagates.
MoodMetricAgent_process_metric(metric_value, reply) ==
    IF reply.err THEN Raise("APIConnectionError", 1)
    ELSE LET response == Strip(reply.text)
             f == FloatOfText(response)
             i == IF f.exc = "" THEN int(f.value) ELSE f
         IN  IF i.exc = "" THEN Ret(PyInt(max(1, min(5, i.value.n))), 1)
             ELSE IF i.exc = "ValueError" THEN Ret(PyInt(3), 1)
             ELSE Raise(i.exc, 1)

\* Mutant: calculate passing a mood value that is already a number in 1..5
\* through without asking the agent.
calculate_passthrough(metric_name, metric_value, reply) ==
    IF metric_name = "cannabis_use"
    THEN CannabisMetricAgent_process_metric(metric_value, reply)
    ELSE IF metric_name = "mood"
    THEN (IF IsFinite(metric_value) /\ metric_value.d <= metric_value.n
             /\ metric_value.n <= 5 * metric_value.d
          THEN Ret(metric_value, 0)
          ELSE MoodMetricAgent_process_metric(metric_value, reply))
    ELSE LET f == float(metric_value)
         IN  IF f.exc = "ValueError" THEN Ret(PyFloat(0, 1), 0) ELSE f

\* calculate(metric_name, metric_value)
calculate(metric_name, metric_value, reply) ==
    IF metric_name = "cannabis_use"
    THEN CannabisMetricAgent_process_metric(metric_value, reply)
    ELSE IF metric_name = "mood"
    THEN MoodMetricAgent_process_metric(metric_value, reply)
    ELSE LET f == float(metric_value)
         IN  IF f.exc = "ValueError" THEN Ret(PyFloat(0, 1), 0) ELSE f

\* ------------------------------------------------------- interpreter state

MetricNames ==
    {"cannabis_use", "mood", "monthly_cashflow_income",
     "monthly_cashflow_expenses", "monthly_cashflow_savings",
     "monthly_cashflow_savings_rate"}

\* Raw values handed to calculate: texts and numbers, in and out of 1..5.
CalcRawValues ==
    {PyStr(<<"o", "k">>), PyStr(<<"4">>), PyInt(4), PyInt(7), PyFloat(15, 10)}

VARIABLES
    c_pc,       \* "call" before calculate runs, then "returned" or "raised"
    c_name,     \* calculate's metric_name
    c_value,    \* calculate's metric_value
    c_reply,    \* what the completion service did with the request, if any
    c_out       \* calculate's result

cvars == <<c_pc, c_name, c_value, c_reply, c_out>>

NoReply == Response(<<>>)

CInit ==
    /\ c_pc = "call"
    /\ c_name \in MetricNames
    /\ c_value \in CalcRawValues
    /\ c_reply = NoReply
    /\ c_out = Ret(PyNone, 0)

CIdle ==
    /\ c_pc = "off"
    /\ c_name = "mood"
    /\ c_value = PyNone
    /\ c_reply = NoReply
    /\ c_out = Ret(PyNone, 0)

\* calculate() on a financial metric: no completion request is involved.
CalculateFinancial ==
    /\ c_pc = "call"
    /\ c_name \notin {"cannabis_use", "mood"}
    /\ c_out' = calculate(c_name, c_value, NoReply)
    /\ c_pc' = IF c_out'.exc = "" THEN "returned" ELSE "raised"
    /\ UNCHANGED <<c_name, c_value, c_reply>>

\* calculate() on cannabis_use or mood: the agent's request gets a reply.
CalculateAgent ==
    /\ c_pc = "call"
    /\ c_name \in {"cannabis_use", "mood"}
    /\ \E reply \in {TransportError} \cup {Response(t) : t \in Texts} :
          /\ c_reply' = reply
          /\ c_out' = calculate(c_name, c_value, reply)
    /\ c_pc' = IF c_out'.exc = "" THEN "returned" ELSE "raised"
    /\ UNCHANGED <<c_name, c_value>>

\* ------------------------------------------------------------- timestamps

\* A datetime is a number of minutes since a Monday 00:00; a date string
\* "YYYY-MM-DD HH:MM:SS" is the tuple <<day, hour, minute>> of its fields.
MinutesPerHour == 60
HoursPerDay == 24

\* datetime.strptime(date, "%Y-%m-%d %H:%M:%S") / read_csv(parse_dates=['dt'])
strptime(date) == (date[1] * HoursPerDay + date[2]) * MinutesPerHour + date[3]

\* Mutant: a date format that drops the minutes.
strftime_hours(dt) ==
    <<dt \div (HoursPerDay * MinutesPerHour), (dt \div MinutesPerHour) % HoursPerDay, 0>>

\* The text to_csv writes for a datetime.
strftime(dt) ==
    <<dt \div (HoursPerDay * MinutesPerHour),
      (dt \div MinutesPerHour) % HoursPerDay,
      dt % MinutesPerHour>>

\* ------------------------------------------------------ CSV persistence

DigitChar(i) == <<"0", "1", "2", "3", "4", "5", "6", "7", "8", "9">>[i + 1]

RECURSIVE NatText(_)
NatText(n) ==
    IF n < 10 THEN <<DigitChar(n)>>
    ELSE Append(NatText(n \div 10), DigitChar(n % 10))

\* Digits of the fraction r / d (r < d, d a power of ten).
RECURSIVE FracText(_, _)
FracText(r, d) ==
    IF d = 1 THEN <<>>
    ELSE <<DigitChar(r \div (d \div 10))>> \o FracText(r % (d \div 10), d \div 10)

\* The cell to_csv writes for a value: str(value), NaN as the empty cell.
CellText(v) ==
    IF v.t = "str" THEN v.s
    ELSE IF v.t = "int"
    THEN (IF v.n < 0 THEN <<"-">> ELSE <<>>) \o NatText(IF v.n < 0 THEN -v.n ELSE v.n)
    ELSE IF v.d = 0
    THEN (IF v.n = 0 THEN <<>>
          ELSE IF v.n > 0 THEN <<"i", "n", "f">> ELSE <<"-", "i", "n", "f">>)
    ELSE LET a == IF v.n < 0 THEN -v.n ELSE v.n
         IN  (IF v.n < 0 THEN <<"-">> ELSE <<>>) \o NatText(a \div v.d) \o <<".">>
             \o (IF v.d = 1 THEN <<"0">> ELSE FracText(a % v.d, v.d))

\* df.to_csv(csv_filename, index=False): one text row per row of the frame.
to_csv(df) ==
    [i \in 1..Len(df) |->
        [dt |-> strftime(df[i].dt), event_type |-> df[i].event_type,
         value |-> CellText(df[i].value)]]

\* Cells read_csv takes for missing values.
IsNA(cell) == cell = <<>> \/ cell = <<"n", "a", "n">>

IsIntText(cell) ==
    /\ cell # <<>>
    /\ LET body == IF Head(cell) = "-" THEN Tail(cell) ELSE cell
       IN  body # <<>> /\ \A i \in 1..Len(body) : body[i] \in Digits

\* pd.read_csv(csv_filename, parse_dates=['dt']): dt is parsed; the value
\* column is int64 when every cell is an integer, float64 when every cell is
\* a number or missing, and otherwise keeps each cell's text (missing: NaN).
read_csv(rows) ==
    LET cells == {rows[i].value : i \in 1..Len(rows)}
        allInt == \A c \in cells : IsIntText(c)
        allNum == \A c \in cells : IsNA(c) \/ FloatOfText(c).exc = ""
        Value(c) ==
            IF IsNA(c) THEN NaN
            ELSE IF allInt THEN PyInt(FloatOfText(c).value.n)
            ELSE IF allNum THEN FloatOfText(c).value
            ELSE PyStr(c)
    IN  [i \in 1..Len(rows) |->
            [dt |-> strptime(rows[i].dt), event_type |-> rows[i].event_type,
             value |-> Value(rows[i].value)]]

\* The file user_<id>_data.csv: absent until the first save.
NoFile == [exists |-> FALSE, rows |-> <<>>]
File(rows) == [exists |-> TRUE, rows |-> rows]

\* existing_df as get_user_data_as_dataframe loads it.
load_existing(file) == IF file.exists THEN read_csv(file.rows) ELSE <<>>

\* ------------------------------------------------------------ the merger

\* financial_metrics, in the order the merge walks them.
financial_metrics ==
    <<"monthly_cashflow_income", "monthly_cashflow_expenses",
      "monthly_cashflow_savings", "monthly_cashflow_savings_rate">>

IsQualitative(kind) == kind \in {"cannabis_use", "mood"}

\* event_type of the row tested for membership and appended first.
RawTag(kind) ==
    IF kind = "cannabis_use" THEN "cannabis_use_since_last_update_raw"
    ELSE IF kind = "mood" THEN "mood_raw"
    ELSE kind

\* event_type of the second row of a cannabis_use or mood event.
DerivedTag(kind) ==
    IF kind = "cannabis_use" THEN "cannabis_use_since_last_update_grams"
    ELSE "mood_score"

Row(dt, event_type, value) == [dt |-> dt, event_type |-> event_type, value |-> value]

\* Mutant: every loop testing the cannabis tag (a copied condition).
InLog_copied_tag(existing_df, dt, tag) ==
    \E i \in 1..Len(existing_df) :
        /\ existing_df[i].dt = dt
        /\ existing_df[i].event_type = "cannabis_use_since_last_update_raw"

\* Mutant: the membership test on the timestamp alone.
InLog_dt_only(existing_df, dt, tag) ==
    \E i \in 1..Len(existing_df) : existing_df[i].dt = dt

\* ((existing_df['dt'] == dt) & (existing_df['event_type'] == tag)).any()
InLog(existing_df, dt, tag) ==
    \E i \in 1..Len(existing_df) :
        existing_df[i].dt = dt /\ existing_df[i].event_type = tag

\* Items of one metric's map, in the map's iteration order.
RECURSIVE ItemsOf(_, _)
ItemsOf(kind, map) ==
    IF map = <<>> THEN <<>>
    ELSE <<[kind |-> kind, date |-> Head(map).date, value |-> Head(map).value]>>
         \o ItemsOf(kind, Tail(map))

\* The order in which the three loops visit the fetched events.
Items(fetched) ==
    ItemsOf("cannabis_use", fetched["cannabis_use"])
    \o ItemsOf("mood", fetched["mood"])
    \o ItemsOf(financial_metrics[1], fetched[financial_metrics[1]])
    \o ItemsOf(financial_metrics[2], fetched[financial_metrics[2]])
    \o ItemsOf(financial_metrics[3], fetched[financial_metrics[3]])
    \o ItemsOf(financial_metrics[4], fetched[financial_metrics[4]])

\* The loops of get_user_data_as_dataframe: each event that is not in
\* existing_df is interpreted and appended to df_data; the k-th completion
\* request of the run gets replies[k].  An exception ends the run where it
\* is raised.
RECURSIVE ProcessItems(_, _, _, _, _)
ProcessItems(items, existing_df, replies, df_data, used) ==
    IF items = <<>> THEN [exc |-> "", df_data |-> df_data, requests |-> used]
    ELSE LET e == Head(items)
             dt == strptime(e.date)
         IN  IF InLog(existing_df, dt, RawTag(e.kind))
             THEN ProcessItems(Tail(items), existing_df, replies, df_data, used)
             ELSE LET c == calculate(e.kind, e.value,
                                     IF IsQualitative(e.kind)
                                     THEN replies[used + 1] ELSE NoReply)
                      rows == IF IsQualitative(e.kind)
                              THEN <<Row(dt, RawTag(e.kind), e.value),
                                     Row(dt, DerivedTag(e.kind), c.value)>>
                              ELSE <<Row(dt, e.kind, c.value)>>
                  IN  IF c.exc # ""
                      THEN [exc |-> c.exc, df_data |-> df_data,
                            requests |-> used + c.requests]
                      ELSE ProcessItems(Tail(items), existing_df, replies,
                                        df_data \o rows, used + c.requests)

\* Orders of the rows idx of df in which dt never decreases.
RECURSIVE SortedOrders(_, _)
SortedOrders(df, idx) ==
    IF idx = {} THEN {<<>>}
    ELSE LET first == {i \in idx : \A j \in idx : df[i].dt <= df[j].dt}
         IN  UNION {{<<df[i]>> \o o : o \in SortedOrders(df, idx \ {i})} : i \in first}

\* Mutant: no sort at all.
sort_values_none(df) == {df}

\* df.sort_values('dt'): the default sort is not stable, so rows with equal
\* dt may come out in any order.
sort_values(df) == SortedOrders(df, 1..Len(df))

\* pd.concat([existing_df, new_df], ignore_index=True)
concat(existing_df, new_df) == existing_df \o new_df

\* The frames get_user_data_as_dataframe may return once the loops are done.
combine(existing_df, df_data) ==
    IF df_data = <<>> THEN {existing_df}
    ELSE UNION {sort_values(concat(existing_df, new_df)) : new_df \in sort_values(df_data)}

\* Mutant: a failed merge saving the rows it had produced so far.
persist_partial(file, g, has_df, out) ==
    IF g.exc # "" THEN File(to_csv(concat(g.existing_df, g.df_data)))
    ELSE IF ~has_df \/ out = <<>> THEN file ELSE File(to_csv(out))

\* What update_user_data leaves in the file, g being the merge's outcome and
\* out the frame it returned: nothing is written when the merge raised or
\* returned None or an empty frame.
persist(file, g, has_df, out) ==
    IF g.exc # "" \/ ~has_df \/ out = <<>> THEN file ELSE File(to_csv(out))

\* ------------------------------------------------------- render cycles

\* Render cycles explored, and events one fetched document may hold.
MaxCycles == 2
MaxEvents == 2

\* The events the fetched documents are drawn from: both completion-backed
\* metrics and a financial one, text and numeric raw values, two metrics at
\* one date, and one key (mood at 10:00) with two possible values.
Event(kind, date, value) == [kind |-> kind, date |-> date, value |-> value]
FetchEvents ==
    {Event("cannabis_use", <<0, 10, 0>>, PyStr(<<"0">>)),
     Event("mood", <<0, 10, 0>>, PyStr(<<"o", "k">>)),
     Event("mood", <<0, 10, 0>>, PyInt(4)),
     Event("mood", <<0, 9, 30>>, PyInt(4)),
     Event("monthly_cashflow_income", <<0, 9, 30>>, PyInt(7))}

\* What the completion service may do with a request of a render cycle.
MergeReplies == {TransportError, Response(<<"4">>), Response(<<"o", "k">>)}

\* Sequences of at most n events, no two for the same metric and date (the
\* keys of one map are distinct).
RECURSIVE EventSeqs(_)
EventSeqs(n) ==
    IF n = 0 THEN {<<>>}
    ELSE LET shorter == EventSeqs(n - 1)
         IN  shorter \cup
             {Append(p[1], p[2]) : p \in
                 {p \in shorter \X FetchEvents :
                     \A i \in 1..Len(p[1]) :
                         ~(p[1][i].kind = p[2].kind /\ p[1][i].date = p[2].date)}}

\* The map of one metric in a document holding the events q.
RECURSIVE MapOf(_, _)
MapOf(kind, q) ==
    IF q = <<>> THEN <<>>
    ELSE (IF Head(q).kind = kind
          THEN <<[date |-> Head(q).date, value |-> Head(q).value]>> ELSE <<>>)
         \o MapOf(kind, Tail(q))

\* user_data['state'] of the fetched document: per metric, its map from date
\* string to raw value, as the sequence of its items.
FetchInputs == {[k \in MetricNames |-> MapOf(k, q)] : q \in EventSeqs(MaxEvents)}

NoEvents == [k \in MetricNames |-> <<>>]

VARIABLES
    csv,          \* the persisted log file
    cycles,       \* render cycles run so far
    status,       \* how the last cycle ended: idle, saved, nodata, nodoc, raised
    exc,          \* the exception the last cycle raised, "" if none
    fetched,      \* the document the last cycle fetched
    replies,      \* the replies to the completion requests of the last cycle
    existing_df,  \* the log the last cycle loaded
    df_data,      \* the rows the last cycle produced
    df,           \* the frame update_user_data returned (<<>> for None)
    rerun,        \* the last cycle fetched what the last completed cycle did
    merged        \* the document of the last completed cycle, if any

mvars == <<csv, cycles, status, exc, fetched, replies, existing_df, df_data,
           df, rerun, merged>>

MInit ==
    /\ csv = NoFile
    /\ cycles = 0
    /\ status = "idle"
    /\ exc = ""
    /\ fetched = NoEvents
    /\ replies = <<>>
    /\ existing_df = <<>>
    /\ df_data = <<>>
    /\ df = <<>>
    /\ rerun = FALSE
    /\ merged = {}

\* Completion requests a run over items can issue at most.
RECURSIVE NumNew(_, _)
NumNew(items, existing) ==
    IF items = <<>> THEN 0
    ELSE (IF IsQualitative(Head(items).kind)
             /\ ~InLog(existing, strptime(Head(items).date), RawTag(Head(items).kind))
          THEN 1 ELSE 0) + NumNew(Tail(items), existing)

\* get_user_data_as_dataframe past the document checks, on the loaded log:
\* the loops' outcome and the frames it may return.
get_user_data_as_dataframe(existing, f, rs) ==
    LET Result(r) ==
            [existing_df |-> existing, exc |-> r.exc, df_data |-> r.df_data,
             requests |-> r.requests,
             frames |-> IF r.exc = "" THEN combine(existing, r.df_data) ELSE {<<>>}]
    IN  Result(ProcessItems(Items(f), existing, rs, <<>>, 0))

\* One render cycle, update_user_data(user_id): fetch the document, load the
\* log, merge, and save unless the merge raised or gave no data.
RenderCycle ==
    /\ cycles < MaxCycles
    /\ \E existing \in {load_existing(csv)} :
       \E f \in FetchInputs :
       \E rs \in [1..NumNew(Items(f), existing) -> MergeReplies] :
       \E g \in {get_user_data_as_dataframe(existing, f, rs)} :
       \E out \in g.frames :
          /\ fetched' = f
          /\ replies' = SubSeq(rs, 1, g.requests)
          /\ existing_df' = g.existing_df
          /\ df_data' = g.df_data
          /\ exc' = g.exc
          /\ df' = out
          /\ status' = IF g.exc # "" THEN "raised"
                       ELSE IF out = <<>> THEN "nodata" ELSE "saved"
          /\ csv' = persist(csv, g, TRUE, out)
          /\ rerun' = (f \in merged)
          /\ merged' = IF g.exc = "" THEN {f} ELSE merged
    /\ cycles' = cycles + 1

NoMerge ==
    [existing_df |-> <<>>, exc |-> "", df_data |-> <<>>, requests |-> 0,
     frames |-> {<<>>}]

\* A render cycle that finds no user document, or no 'state' field in it:
\* get_user_data_as_dataframe returns None before the log is loaded.
RenderCycleNoDocument ==
    /\ cycles < MaxCycles
    /\ fetched' = NoEvents
    /\ replies' = <<>>
    /\ existing_df' = <<>>
    /\ df_data' = <<>>
    /\ exc' = ""
    /\ df' = <<>>
    /\ status' = "nodoc"
    /\ csv' = persist(csv, NoMerge, FALSE, <<>>)
    /\ rerun' = FALSE
    /\ cycles' = cycles + 1
    /\ UNCHANGED merged

\* ---------------------------------------------------------- the aggregator

\* Aggregated numbers are fractions n/d in lowest terms; d = 0 is NaN (an
\* absent value).
RECURSIVE GCD(_, _)
GCD(a, b) == IF b = 0 THEN a ELSE GCD(b, a % b)

Q(n, d) ==
    LET g == GCD(IF n < 0 THEN -n ELSE n, d)
    IN  [n |-> n \div g, d |-> d \div g]

QNaN == [n |-> 0, d |-> 0]
QAdd(a, b) == Q(a.n * b.d + b.n * a.d, a.d * b.d)

\* pd.to_numeric(value, errors='coerce')
to_numeric(v) ==
    IF v.t = "str"
    THEN LET f == FloatOfText(v.s)
         IN  IF f.exc = "" /\ f.value.d > 0 THEN Q(f.value.n, f.value.d) ELSE QNaN
    ELSE IF IsFinite(v) THEN Q(v.n, v.d)
    ELSE QNaN

\* get_quantitative_metrics(df)
QuantitativeTypes ==
    {"cannabis_use_since_last_update_grams", "mood_score",
     "monthly_cashflow_income", "monthly_cashflow_expenses",
     "monthly_cashflow_savings", "monthly_cashflow_savings_rate"}

RECURSIVE get_quantitative_metrics(_)
get_quantitative_metrics(log) ==
    IF log = <<>> THEN <<>>
    ELSE (IF Head(log).event_type \in QuantitativeTypes THEN <<Head(log)>> ELSE <<>>)
         \o get_quantitative_metrics(Tail(log))

\* The metrics mapping of aggregate_data: column_name of each event_type.
column_name(event_type) ==
    IF event_type = "cannabis_use_since_last_update_grams" THEN "cannabis_grams"
    ELSE event_type

Columns == {column_name(e) : e \in QuantitativeTypes}

financial_columns ==
    {"monthly_cashflow_income", "monthly_cashflow_expenses",
     "monthly_cashflow_savings", "monthly_cashflow_savings_rate"}

Granularities == {"Hourly", "Minutely", "Daily", "Weekly"}

\* df['dt'].dt.floor(...): the start of the bucket of dt.
floor(dt, unit) == dt - (dt % unit)

period(dt, granularity) ==
    IF granularity = "Hourly" THEN floor(dt, MinutesPerHour)
    ELSE IF granularity = "Daily" THEN floor(dt, HoursPerDay * MinutesPerHour)
    ELSE floor(dt, 1)

\* The numeric values of one metric in one bucket, in the order of the rows.
RECURSIVE GroupValues(_, _, _, _)
GroupValues(frame, event_type, p, granularity) ==
    IF frame = <<>> THEN <<>>
    ELSE (IF Head(frame).event_type = event_type /\ period(Head(frame).dt, granularity) = p
          THEN <<to_numeric(Head(frame).value)>> ELSE <<>>)
         \o GroupValues(Tail(frame), event_type, p, granularity)

\* groupby(...).sum(): missing values are skipped, an empty sum is 0.
RECURSIVE GroupSum(_)
GroupSum(vals) ==
    IF vals = <<>> THEN Q(0, 1)
    ELSE IF Head(vals).d = 0 THEN GroupSum(Tail(vals))
    ELSE QAdd(Head(vals), GroupSum(Tail(vals)))

RECURSIVE Present(_)
Present(vals) ==
    IF vals = <<>> THEN 0
    ELSE (IF Head(vals).d = 0 THEN 0 ELSE 1) + Present(Tail(vals))

\* groupby(...).mean() and Series.mean(): the mean of the values present.
GroupMean(vals) ==
    IF Present(vals) = 0 THEN QNaN
    ELSE LET total == GroupSum(vals) IN Q(total.n, total.d * Present(vals))

\* groupby(...).last(): the last value present.
RECURSIVE GroupLast(_)
GroupLast(vals) ==
    IF vals = <<>> THEN QNaN
    ELSE IF vals[Len(vals)].d # 0 THEN vals[Len(vals)]
    ELSE GroupLast(SubSeq(vals, 1, Len(vals) - 1))

\* Mutant: every metric summed.
Combine_sum_all(event_type, vals) == GroupSum(vals)

\* The per-metric combination rule of the loop over metrics.
Combine(event_type, vals) ==
    IF event_type = "cannabis_use_since_last_update_grams" THEN GroupSum(vals)
    ELSE IF event_type = "mood_score" THEN GroupMean(vals)
    ELSE GroupLast(vals)

\* The buckets in which a metric has rows: the dt column of its agg_df.
MetricPeriods(frame, event_type, granularity) ==
    {period(frame[i].dt, granularity) :
        i \in {j \in 1..Len(frame) : frame[j].event_type = event_type}}

\* The set S of numbers as an ascending sequence.
RECURSIVE Ascending(_)
Ascending(S) ==
    IF S = {} THEN <<>>
    ELSE LET m == CHOOSE x \in S : \A y \in S : x <= y
         IN  <<m>> \o Ascending(S \ {m})

\* The outer merge of the per-metric tables on dt, sorted by dt: one row per
\* bucket, a metric without rows in the bucket absent.
merged_table(frame, granularity) ==
    LET periods == Ascending(UNION {MetricPeriods(frame, e, granularity) :
                                       e \in QuantitativeTypes})
    IN  [i \in 1..Len(periods) |->
            [dt |-> periods[i],
             cols |-> [c \in Columns |->
                LET e == CHOOSE x \in QuantitativeTypes : column_name(x) = c
                IN  IF periods[i] \in MetricPeriods(frame, e, granularity)
                    THEN Combine(e, GroupValues(frame, e, periods[i], granularity))
                    ELSE QNaN]]]

ColumnOf(table, c) == [i \in 1..Len(table) |-> table[i].cols[c]]

\* Series.fillna(value)
fillna(v, value) == IF v.d = 0 THEN value ELSE v

\* Mutant: the financial columns left unfilled.
ffill_missing(col) == col

\* DataFrame.ffill() on one column: each absent value takes the last value
\* present above it.
RECURSIVE ffill(_)
ffill(col) ==
    IF col = <<>> THEN <<>>
    ELSE LET n == Len(col)
             above == ffill(SubSeq(col, 1, n - 1))
         IN  Append(above,
                    IF col[n].d # 0 \/ n = 1 THEN col[n] ELSE above[n - 1])

\* The fill policy at the end of aggregate_data.
fill(table) ==
    LET mood_mean == GroupMean(ColumnOf(table, "mood_score"))
        filled == [c \in financial_columns |-> ffill(ColumnOf(table, c))]
    IN  [i \in 1..Len(table) |->
            [dt |-> table[i].dt,
             cols |-> [c \in Columns |->
                IF c = "cannabis_grams" THEN fillna(table[i].cols[c], Q(0, 1))
                ELSE IF c = "mood_score" THEN fillna(table[i].cols[c], mood_mean)
                ELSE filled[c][i]]]]

\* aggregate_data(df, granularity).  Weekly calls Series.to_period on a
\* series whose index is not a DatetimeIndex, which raises TypeError.
aggregate_data(frame, granularity) ==
    IF granularity = "Weekly" THEN [exc |-> "TypeError", table |-> <<>>]
    ELSE [exc |-> "", table |-> fill(merged_table(frame, granularity))]

\* ------------------------------------------------------ aggregation state

\* Rows of the logs handed to the aggregator.
MaxRows == 3

\* Timestamps of those logs: two minutes of one hour, a later hour of the
\* same day, and the next day.
AggTimes == {61, 62, 125, 1501}

AggTypes ==
    {"cannabis_use_since_last_update_grams", "mood_score",
     "monthly_cashflow_income", "mood_raw"}

\* Values of the rows: a float as merged in the run, and a number as read
\* back from a text column of the file.
AggValues == {PyFloat(5, 10), PyStr(<<"4">>)}

AggCells == AggTimes \X AggTypes

\* The rows of the cells S, by ascending dt (the log is kept sorted).
RECURSIVE LogOf(_, _)
LogOf(S, val) ==
    IF S = {} THEN <<>>
    ELSE LET c == CHOOSE x \in S : \A y \in S : x[1] <= y[1]
         IN  <<Row(c[1], c[2], val[c])>> \o LogOf(S \ {c}, val)

\* Logs of at most MaxRows rows with one row per (dt, event_type).
AggLogs ==
    UNION {{LogOf(S, val) : val \in [S -> AggValues]} :
              S \in {T \in SUBSET AggCells : Cardinality(T) <= MaxRows}}

VARIABLES
    a_pc,           \* "call" before the aggregation, then "returned" / "raised"
    a_log,          \* the log update_user_data returned
    a_granularity,  \* the granularity selected
    a_out           \* aggregate_data's result

avars == <<a_pc, a_log, a_granularity, a_out>>

NoTable == [exc |-> "", table |-> <<>>]

AInit ==
    /\ a_pc = "call"
    /\ a_log \in AggLogs
    /\ a_granularity \in Granularities
    /\ a_out = NoTable

AIdle ==
    /\ a_pc = "off"
    /\ a_log = <<>>
    /\ a_granularity = "Hourly"
    /\ a_out = NoTable

\* main(): quant_df = get_quantitative_metrics(df), then
\* aggregate_data(quant_df, granularity)
Aggregate ==
    /\ a_pc = "call"
    /\ a_out' = aggregate_data(get_quantitative_metrics(a_log), a_granularity)
    /\ a_pc' = IF a_out'.exc = "" THEN "returned" ELSE "raised"
    /\ UNCHANGED <<a_log, a_granularity>>

vars == <<cvars, mvars, avars>>

Init == MInit /\ CIdle /\ AIdle

Next ==
    \/ RenderCycle /\ UNCHANGED <<cvars, avars>>
    \/ RenderCycleNoDocument /\ UNCHANGED <<cvars, avars>>

Spec == Init /\ [][Next]_vars

InitInterp == CInit /\ MInit /\ AIdle

NextInterp ==
    \/ CalculateFinancial /\ UNCHANGED <<mvars, avars>>
    \/ CalculateAgent /\ UNCHANGED <<mvars, avars>>

SpecInterp == InitInterp /\ [][NextInterp]_vars

InitAgg == AInit /\ MInit /\ CIdle

NextAgg == Aggregate /\ UNCHANGED <<cvars, mvars>>

SpecAgg == InitAgg /\ [][NextAgg]_vars

\* ================================================================ claims

\* ---- the interpreter (SpecInterp)

AgentAnswered(name) == c_pc # "call" /\ c_name = name /\ ~c_reply.err

\* The number a response text denotes, if any.
Parsed == FloatOfText(c_reply.text)
Malformed == Parsed.exc # "" \/ IsNaN(Parsed.value)
Infinite == Parsed.exc = "" /\ Parsed.value.d = 0 /\ Parsed.value.n # 0
Finite == Parsed.exc = "" /\ Parsed.value.d > 0
OutOfRange ==
    \/ Infinite
    \/ Finite /\ (Parsed.value.n < Parsed.value.d \/ Parsed.value.n > 5 * Parsed.value.d)

\* C5 as stated: for every response text the mood interpreter returns a
\* value in 1..5 without raising, and an out-of-range or malformed response
\* yields exactly 3.
C5_MoodClampAsClaimed ==
    AgentAnswered("mood") =>
        /\ c_out.exc = ""
        /\ c_out.value \in {PyInt(k) : k \in 1..5}
        /\ (Malformed \/ OutOfRange) => c_out.value = PyInt(3)

\* C5, the behaviour of the code: the mood interpreter raises OverflowError for a response that
\* denotes an infinity and otherwise returns an integer in 1..5: exactly 3
\* for a response that is no number (or NaN), and for a finite number its
\* integer part clamped into 1..5 (5 from 5 up, 1 below 2), so that an
\* out-of-range number gives 1 or 5, not 3.
C5_MoodClamp ==
    AgentAnswered("mood") =>
        IF Infinite THEN c_out.exc = "OverflowError"
        ELSE /\ c_out.exc = ""
             /\ c_out.value \in {PyInt(k) : k \in 1..5}
             /\ Malformed => c_out.value = PyInt(3)
             /\ Finite =>
                  LET n == Parsed.value.n
                      d == Parsed.value.d
                      r == c_out.value.n
                  IN  /\ n >= 5 * d => r = 5
                      /\ n < 2 * d => r = 1
                      /\ (2 * d <= n /\ n < 5 * d) => (r * d <= n /\ n < (r + 1) * d)

\* C5 witness: the response "inf" parses as a float and the mood interpreter
\* raises OverflowError.
C5_Witness ==
    /\ AgentAnswered("mood")
    /\ c_reply.text = <<"i", "n", "f">>
    /\ c_pc = "raised"
    /\ c_out.exc = "OverflowError"

\* C6 as stated: for every response text the cannabis interpreter returns a
\* value >= 0.0, and exactly 0.0 for a response that is no number.
C6_CannabisNonNegative ==
    AgentAnswered("cannabis_use") =>
        /\ c_out.exc = ""
        /\ c_out.value.t = "float"
        /\ c_out.value.n >= 0
        /\ ~IsNaN(c_out.value)
        /\ Parsed.exc # "" => c_out.value = PyFloat(0, 1)

\* C6 witness: the response "-4" comes back from the cannabis interpreter
\* as -4.0.
C6_Witness ==
    /\ AgentAnswered("cannabis_use")
    /\ c_reply.text = <<"-", "4">>
    /\ c_pc = "returned"
    /\ c_out.value = PyFloat(-4, 1)

InRangeNumber(v) == IsFinite(v) /\ v.d <= v.n /\ v.n <= 5 * v.d

\* C8 as stated: a financial call issues no request, a mood call whose raw
\* value is already a number in 1..5 issues none either, and every other
\* mood call and every cannabis_use call issues exactly one.
C8_RequestsAsClaimed ==
    c_pc # "call" =>
        c_out.requests =
            IF ~IsQualitative(c_name) THEN 0
            ELSE IF c_name = "mood" /\ InRangeNumber(c_value) THEN 0
            ELSE 1

\* C8 amended: a financial call issues no request; every mood call, also
\* one whose raw value is already a number in 1..5, and every cannabis_use
\* call issues exactly one request, whether it returns or raises.
C8_Requests ==
    c_pc # "call" =>
        c_out.requests = IF c_name \in {"cannabis_use", "mood"} THEN 1 ELSE 0

\* C8 witness: a mood call with the raw value 4 has returned after one
\* request.
C8_Witness ==
    /\ c_pc = "returned"
    /\ c_name = "mood"
    /\ c_value = PyInt(4)
    /\ c_out.requests = 1

\* ---- the merger (Spec)

Completed == status \in {"saved", "nodata"}

NoDuplicates(log) ==
    \A i, j \in 1..Len(log) :
        (log[i].dt = log[j].dt /\ log[i].event_type = log[j].event_type) => i = j

Count(log, r) == Cardinality({i \in 1..Len(log) : log[i] = r})

\* The two logs hold the same rows, each as often.
SameRows(a, b) ==
    /\ Len(a) = Len(b)
    /\ \A i \in 1..Len(a) : Count(a, a[i]) = Count(b, a[i])

Ascends(log) == \A i, j \in 1..Len(log) : i < j => log[i].dt <= log[j].dt

\* The fetched event e has a row in the loaded log: same timestamp, raw tag.
Known(e) ==
    \E i \in 1..Len(existing_df) :
        /\ existing_df[i].dt = strptime(e.date)
        /\ existing_df[i].event_type = RawTag(e.kind)

\* C1: the merge is idempotent.  Merging the fetched events once more into
\* the log a completed cycle returned gives that log again, with no new row
\* and no request; and a cycle that fetches what the last completed cycle
\* fetched, against the persisted log, adds no row and returns the loaded
\* log.
C1_MergeIdempotent ==
    /\ Completed =>
          LET again == get_user_data_as_dataframe(df, fetched,
                           [i \in 1..NumNew(Items(fetched), df) |-> TransportError])
          IN  /\ again.exc = ""
              /\ again.df_data = <<>>
              /\ again.requests = 0
              /\ again.frames = {df}
    /\ rerun =>
          /\ exc = ""
          /\ df_data = <<>>
          /\ replies = <<>>
          /\ df = existing_df

\* C1 witness: a cycle re-fetched the events of the cycle before, which had
\* been merged and saved.
C1_Witness ==
    /\ rerun
    /\ status = "saved"
    /\ cycles = 2
    /\ Len(Items(fetched)) = 2
    /\ Len(existing_df) >= 3

\* C2: after any sequence of render cycles from an empty log, the returned
\* and the persisted log hold at most one row per (timestamp, event_type).
C2_NoDuplicates ==
    /\ NoDuplicates(df)
    /\ NoDuplicates(load_existing(csv))
    /\ \A i, j \in 1..Len(csv.rows) :
          (csv.rows[i].dt = csv.rows[j].dt
             /\ csv.rows[i].event_type = csv.rows[j].event_type) => i = j

\* C2 witness: a second cycle fetched one event the log already held and
\* one it did not, and saved.
C2_Witness ==
    /\ status = "saved"
    /\ cycles = 2
    /\ \E k \in 1..Len(Items(fetched)) : Known(Items(fetched)[k])
    /\ df_data # <<>>
    /\ Len(df) > Len(existing_df)

\* C3 as stated: when some fetched event is new, the merged log is the
\* existing log, unaltered and in its order, followed by the new rows in
\* ascending timestamp order.  Rows with equal timestamps are taken as
\* interchangeable here, the sort leaving their order open: what is stated
\* is that the merged log holds the existing and the new rows, that its
\* first rows carry the existing log's timestamps in the existing order, and
\* that the rows after them ascend.
C3_AppendOnlyAsClaimed ==
    (Completed /\ df_data # <<>>) =>
        /\ SameRows(df, existing_df \o df_data)
        /\ \A i \in 1..Len(existing_df) : df[i].dt = existing_df[i].dt
        /\ Ascends(SubSeq(df, Len(existing_df) + 1, Len(df)))

\* C3 amended: when some fetched event is new, the merged log holds exactly
\* the rows of the existing log, unaltered, and the new rows, none dropped
\* or added, and the whole of it is in ascending timestamp order: the merge
\* sorts the concatenation, so a new row with an earlier timestamp comes
\* before the existing rows with later ones.
C3_MergeKeepsRowsSorted ==
    (Completed /\ df_data # <<>>) =>
        /\ SameRows(df, existing_df \o df_data)
        /\ Ascends(df)

\* C3 witness: a new row was merged whose timestamp is earlier than that of
\* an existing row.
C3_Witness ==
    /\ status = "saved"
    /\ \E i \in 1..Len(df_data) : \E j \in 1..Len(existing_df) :
          df_data[i].dt < existing_df[j].dt

\* C4: a cycle in which a completion request fails raises, returns nothing
\* and leaves the persisted log as it was before the cycle.
C4_AbortPersistsNothing ==
    [][status' = "raised" => (csv' = csv /\ df' = <<>>)]_vars

\* C4 witness: a transport failure after an earlier event of the same cycle
\* had been interpreted, its rows produced.
C4_Witness ==
    /\ status = "raised"
    /\ exc = "APIConnectionError"
    /\ df_data # <<>>
    /\ Len(replies) = 2
    /\ ~replies[1].err /\ replies[2].err

\* Rows of df_data that belong to the fetched event e.
RowsOf(e) ==
    {i \in 1..Len(df_data) :
        /\ df_data[i].dt = strptime(e.date)
        /\ df_data[i].event_type \in
              (IF IsQualitative(e.kind) THEN {RawTag(e.kind), DerivedTag(e.kind)}
               ELSE {e.kind})}

\* The reply to the request made for the k-th fetched event: requests are
\* made in the order of the events, one per new completion-backed event.
ReplyFor(k) ==
    replies[1 + Cardinality({m \in 1..(k - 1) :
                 IsQualitative(Items(fetched)[m].kind) /\ ~Known(Items(fetched)[m])})]

\* C7: a fetched event is new iff the existing log has no row with its
\* timestamp and raw tag; a new cannabis_use or mood event gets exactly two
\* rows (the raw value untouched, and the interpreted value), a new
\* financial event exactly one (the interpreted number), and an event that
\* is not new gets none; nothing else is appended.
C7_NewEventRows ==
    Completed =>
        LET items == Items(fetched)
        IN  /\ \A k \in 1..Len(items) :
                 LET e == items[k]
                     dt == strptime(e.date)
                 IN  IF Known(e) THEN RowsOf(e) = {}
                     ELSE IF IsQualitative(e.kind)
                     THEN /\ Cardinality(RowsOf(e)) = 2
                          /\ \E i \in RowsOf(e) :
                                df_data[i] = Row(dt, RawTag(e.kind), e.value)
                          /\ \E i \in RowsOf(e) :
                                df_data[i] = Row(dt, DerivedTag(e.kind),
                                                 calculate(e.kind, e.value, ReplyFor(k)).value)
                     ELSE /\ Cardinality(RowsOf(e)) = 1
                          /\ \E i \in RowsOf(e) :
                                df_data[i] = Row(dt, e.kind,
                                                 calculate(e.kind, e.value, NoReply).value)
            /\ \A i \in 1..Len(df_data) : \E k \in 1..Len(items) : i \in RowsOf(items[k])

\* C7 witness: one cycle fetched an event the log held and a new mood event.
C7_Witness ==
    /\ status = "saved"
    /\ \E k \in 1..Len(Items(fetched)) : Known(Items(fetched)[k])
    /\ \E k \in 1..Len(Items(fetched)) :
          /\ Items(fetched)[k].kind = "mood"
          /\ ~Known(Items(fetched)[k])
    /\ Len(df_data) = 2

\* ---- the aggregator (SpecAgg)

\* Minutes in a bucket of the granularity selected.
Width ==
    IF a_granularity = "Minutely" THEN 1
    ELSE IF a_granularity = "Hourly" THEN MinutesPerHour
    ELSE HoursPerDay * MinutesPerHour

\* Rows of the log that are observations of event_type in the bucket
\* starting at p.
Obs(event_type, p) ==
    {i \in 1..Len(a_log) :
        /\ a_log[i].event_type = event_type
        /\ p <= a_log[i].dt
        /\ a_log[i].dt < p + Width}

RECURSIVE SumOver(_)
SumOver(S) ==
    IF S = {} THEN Q(0, 1)
    ELSE LET i == CHOOSE x \in S : TRUE
         IN  QAdd(to_numeric(a_log[i].value), SumOver(S \ {i}))

RECURSIVE SumOfColumn(_, _)
SumOfColumn(c, B) ==
    IF B = {} THEN Q(0, 1)
    ELSE LET b == CHOOSE x \in B : TRUE
         IN  QAdd(a_out.table[b].cols[c], SumOfColumn(c, B \ {b}))

Buckets == 1..Len(a_out.table)

====
